---------------------------- MODULE Spec2Model ----------------------------
(***************************************************************************)
(* Engagement engine of EnglishStoryHub_Server: the points ledger, the     *)
(* level function, the achievement engine, the like toggle of stories and  *)
(* comments, and the view de-duplication cache.                            *)
(*                                                                         *)
(* Every request handler is an async function.  Node runs the code between *)
(* two awaits without interruption, and MongoDB applies one operation      *)
(* (findById, findByIdAndUpdate, create, save, countDocuments) atomically, *)
(* so a handler is modelled as a sequence of steps, one per awaited        *)
(* database operation, each step carrying the synchronous code that        *)
(* follows it up to the next await.  Steps of different requests           *)
(* interleave freely.                                                      *)
(***************************************************************************)
EXTENDS Integers, Sequences, FiniteSets, TLC

VARIABLES
    points,       \* User.points, per user id
    level,        \* User.level, per user id (the cached tier)
    userExists,   \* whether User.findById finds the user
    ach,          \* Achievement collection: number of records per (user, achievementId)
    docs,         \* one story and one comment: author, likes, likesCount, commentsCount
    nPublished,   \* Story.countDocuments({author, isPublished: true}) per user
    extraLikes,   \* likes on a user's stories other than the modelled one
    commentCount, \* Comment.countDocuments({author}) per user
    comments,     \* Comment documents of story s1: id, parentComment, author
    pointsInit,   \* the points each user had when the run began (never changes)
    deltaSum,     \* history: sum of the $inc deltas applied to each user
    proc,         \* per request worker: program counter and the handler's locals
    opsLeft,      \* requests still allowed to start (bounds the run)
    recentViews,  \* the in-memory Map viewKey -> timestamp
    viewsCount,   \* Story.viewsCount of the viewed story
    clock,        \* Date.now(), in whole seconds
    vreq          \* per view request: program counter, viewKey, cookie flag, outcome

dbVars   == <<points, level, userExists, ach, docs, nPublished, extraLikes, commentCount,
             comments>>
histVars == <<pointsInit, deltaSum>>
viewVars == <<recentViews, viewsCount, clock, vreq>>
vars     == <<dbVars, histVars, proc, opsLeft, viewVars>>

-----------------------------------------------------------------------------
(* Bounds of the model *)

NProcs == 2
MaxOps == 2
MaxClock == 12
TickSeconds == 2

Procs == 1..NProcs
Users == {"u1", "u2", "u3"}
Levels == {"beginner", "intermediate", "advanced"}

-----------------------------------------------------------------------------
(* utils/levelSystem.ts *)

BeginnerMin == 0
BeginnerMax == 99
IntermediateMin == 100
IntermediateMax == 499
AdvancedMin == 500

\* getUserLevelInfo with the beginner tier ending one point later.
LevelWrongBoundary(p) ==
    IF p >= BeginnerMin /\ p <= BeginnerMax + 1 THEN "beginner"
    ELSE IF p >= IntermediateMin + 1 /\ p <= IntermediateMax THEN "intermediate"
    ELSE IF p >= AdvancedMin THEN "advanced"
    ELSE "beginner"

\* getUserLevelInfo(points).level: the first tier of LEVEL_SYSTEM, in the order
\* beginner, intermediate, advanced, with min <= points <= max; the fallback
\* after the loop is beginner.
getUserLevelInfo(p) ==
    IF p >= BeginnerMin /\ p <= BeginnerMax THEN "beginner"
    ELSE IF p >= IntermediateMin /\ p <= IntermediateMax THEN "intermediate"
    ELSE IF p >= AdvancedMin THEN "advanced"
    ELSE "beginner"

\* The LevelInfo object getUserLevelInfo(points) returns, reduced to level,
\* points and nextLevel {level, pointsNeeded}: inside the loop the object
\* carries the argument as points and, for beginner and intermediate, a
\* nextLevel with pointsNeeded = 100 - points or 500 - points; the fallback
\* after the loop is the beginner tier with points 0 and no nextLevel.
NeededFromBeginner == 100
NeededFromIntermediate == 500

NoLevelInfo ==
    [level |-> "none", points |-> 0, hasNext |-> FALSE, nextLevel |-> "none",
     pointsNeeded |-> 0]

\* Whether the loop over LEVEL_SYSTEM finds a tier (max of advanced is
\* Infinity).
InSomeTier(p) ==
    \/ p >= BeginnerMin /\ p <= BeginnerMax
    \/ p >= IntermediateMin /\ p <= IntermediateMax
    \/ p >= AdvancedMin

LevelInfoOf(p) ==
    LET l == getUserLevelInfo(p)
    IN  IF ~InSomeTier(p)
        THEN [level |-> "beginner", points |-> 0, hasNext |-> FALSE,
              nextLevel |-> "none", pointsNeeded |-> 0]
        ELSE [level |-> l, points |-> p, hasNext |-> l # "advanced",
              nextLevel |-> IF l = "beginner" THEN "intermediate"
                            ELSE IF l = "intermediate" THEN "advanced" ELSE "none",
              pointsNeeded |-> IF l = "beginner" THEN NeededFromBeginner - p
                               ELSE IF l = "intermediate" THEN NeededFromIntermediate - p
                               ELSE 0]

-----------------------------------------------------------------------------
(* utils/achievementSystem.ts: ACHIEVEMENT_TEMPLATES *)

AchIds == {"FIRST_STORY", "STORY_MILESTONE_5", "STORY_MILESTONE_10",
           "POPULAR_WRITER", "SOCIAL_BUTTERFLY", "LEVEL_UP_INTERMEDIATE",
           "LEVEL_UP_ADVANCED", "ENGAGEMENT_KING"}

TemplatePoints(a) ==
    CASE a = "FIRST_STORY"           -> 15
      [] a = "STORY_MILESTONE_5"     -> 25
      [] a = "STORY_MILESTONE_10"    -> 50
      [] a = "POPULAR_WRITER"        -> 30
      [] a = "SOCIAL_BUTTERFLY"      -> 20
      [] a = "LEVEL_UP_INTERMEDIATE" -> 20
      [] a = "LEVEL_UP_ADVANCED"     -> 50
      [] a = "ENGAGEMENT_KING"       -> 40

PopularLikes == 25
SocialComments == 20
KingViews == 50

AchActions == {"STORY_CREATED", "LEVEL_UP", "STORY_LIKED", "COMMENT_MADE", "STORY_VIEWS"}

RECURSIVE SumLen(_, _)
SumLen(d, S) ==
    IF S = {} THEN 0
    ELSE LET t == CHOOSE x \in S : TRUE
         IN  Len(d[t].likes) + SumLen(d, S \ {t})

\* Story.find({author: userId}, 'likes') reduced to the sum of likes.length:
\* the modelled story when the user wrote it, plus the user's other stories.
TotalLikes(u) ==
    extraLikes[u]
    + SumLen(docs, {t \in DOMAIN docs : docs[t].kind = "story" /\ docs[t].author = u})

\* The storyCount tests of the STORY_CREATED case.
StoryMilestonesLate(n) ==
    (IF n = 2 THEN <<"FIRST_STORY">> ELSE <<>>)
    \o (IF n = 6 THEN <<"STORY_MILESTONE_5">> ELSE <<>>)
    \o (IF n = 11 THEN <<"STORY_MILESTONE_10">> ELSE <<>>)

StoryMilestones(n) ==
    (IF n = 1 THEN <<"FIRST_STORY">> ELSE <<>>)
    \o (IF n = 5 THEN <<"STORY_MILESTONE_5">> ELSE <<>>)
    \o (IF n = 10 THEN <<"STORY_MILESTONE_10">> ELSE <<>>)

\* The switch of checkAndAwardAchievements: achievementsToCheck for an action.
AchievementsToCheck(u, action, newLevel, views) ==
    CASE action = "STORY_CREATED" -> StoryMilestones(nPublished[u])
      [] action = "LEVEL_UP" ->
           (IF newLevel = "intermediate" THEN <<"LEVEL_UP_INTERMEDIATE">> ELSE <<>>)
           \o (IF newLevel = "advanced" THEN <<"LEVEL_UP_ADVANCED">> ELSE <<>>)
      [] action = "STORY_LIKED" ->
           IF TotalLikes(u) >= PopularLikes THEN <<"POPULAR_WRITER">> ELSE <<>>
      [] action = "COMMENT_MADE" ->
           IF commentCount[u] >= SocialComments THEN <<"SOCIAL_BUTTERFLY">> ELSE <<>>
      [] action = "STORY_VIEWS" ->
           IF views >= KingViews THEN <<"ENGAGEMENT_KING">> ELSE <<>>
      [] OTHER -> <<>>

\* Actions whose case awaits a count query before the candidates are known.
NeedsQuery(action) == action \in {"STORY_CREATED", "STORY_LIKED", "COMMENT_MADE"}

\* achievementSchema.index({user: 1, achievementId: 1}, {unique: true}):
\* Achievement.create rejects a second record of the pair (E11000).
NoUniqueIndex(u, a) == FALSE

UniqueViolation(u, a) == ach[u][a] > 0

\* User.findByIdAndUpdate(userId, {$inc: {points: d}}): the new points value.
\* The increment is applied by the database to the stored value; a missing
\* user matches nothing.
IncFromSnapshot(p, u, d) ==
    IF userExists[u] THEN [points EXCEPT ![u] = proc[p].userPts + d] ELSE points

IncPoints(p, u, d) ==
    IF userExists[u] THEN [points EXCEPT ![u] = @ + d] ELSE points

IncDelta(u, d) ==
    IF userExists[u] THEN [deltaSum EXCEPT ![u] = @ + d] ELSE deltaSum

\* The points each handler passes to $inc: toggleLike and toggleCommentLike
\* (points: 1), createStory (points: 10), createComment (points: 2).
LikeReward == 1
StoryReward == 10
CommentReward == 2

\* The rewards as the unused table of getPointsForActivity has them
\* (GIVE_COMMENT: 1).
RewardFromActivityTable(op) ==
    CASE op = "story"   -> 10
      [] op = "comment" -> 1
      [] op = "toggle"  -> 1

\* The reward of an operation, by the kind of the operation.
BaseReward(op) ==
    CASE op = "story"   -> StoryReward
      [] op = "comment" -> CommentReward
      [] op = "toggle"  -> LikeReward

-----------------------------------------------------------------------------
(* Request workers *)

\* In-flight requests are told apart by the slot they occupy; a new request
\* takes the lowest free slot (the slots are interchangeable).
FreeSlot(p) == \A q \in Procs : q < p => proc[q].pc # "idle"

\* A request body, reduced to the fields of interest: whether it carries
\* likes, likesCount (story update) or level (registration, profile update),
\* and their values.
EmptyBody ==
    [hasLikes |-> FALSE, likes |-> <<>>, hasCount |-> FALSE, likesCount |-> 0,
     hasLevel |-> FALSE, level |-> "none"]

IdleProc ==
    [pc |-> "idle", op |-> "none", user |-> "none", target |-> "none",
     likesLocal |-> <<>>, countLocal |-> 0, saveKind |-> "none", hasLiked |-> FALSE,
     aUser |-> "none", aAction |-> "none", aNewLevel |-> "none", aViews |-> 0,
     userPts |-> 0, todo |-> <<>>, cand |-> <<>>, newAch |-> <<>>, ret |-> "none",
     achRes |-> <<>>, updatedPts |-> 0, oldLevel |-> "none", newLevel |-> "none",
     levelUp |-> FALSE, published |-> FALSE, variant |-> "none",
     updatedNull |-> FALSE, respAch |-> <<>>, levelInfo |-> NoLevelInfo,
     retries |-> 0, body |-> EmptyBody, commentId |-> 0]

\* A call of checkAndAwardAchievements(u, action, data) by worker p, which
\* continues at pc `ret` when the call returns.
CallAch(r, u, action, newLevel, views, ret) ==
    [r EXCEPT !.pc = "a_user", !.aUser = u, !.aAction = action,
              !.aNewLevel = newLevel, !.aViews = views, !.userPts = 0,
              !.todo = <<>>, !.cand = <<>>, !.newAch = <<>>, !.ret = ret]

\* return from checkAndAwardAchievements with `res`.
ReturnAch(r, res) ==
    [r EXCEPT !.pc = r.ret, !.achRes = res, !.todo = <<>>]

\* The head of the for loop over achievementsToCheck (synchronous): with no
\* candidate left the function returns newAchievements.
LoopAch(r) ==
    IF r.todo = <<>> THEN ReturnAch(r, r.newAch) ELSE [r EXCEPT !.pc = "a_find"]

\* const user = await User.findById(userId); if (!user) return [];
\* LEVEL_UP and STORY_VIEWS compute their candidates without a further await.
Ach_FindUser(p) ==
    /\ proc[p].pc = "a_user"
    /\ LET r == proc[p]
           c == AchievementsToCheck(r.aUser, r.aAction, r.aNewLevel, r.aViews)
       IN  proc' = [proc EXCEPT ![p] =
             IF ~userExists[r.aUser] THEN ReturnAch(r, <<>>)
             ELSE IF NeedsQuery(r.aAction)
                  THEN [r EXCEPT !.pc = "a_query", !.userPts = points[r.aUser]]
                  ELSE LoopAch([r EXCEPT !.todo = c, !.cand = c,
                                         !.userPts = points[r.aUser]])]
    /\ UNCHANGED <<dbVars, histVars, opsLeft, viewVars>>

\* The count query of STORY_CREATED, STORY_LIKED or COMMENT_MADE.
Ach_Query(p) ==
    /\ proc[p].pc = "a_query"
    /\ LET r == proc[p]
           c == AchievementsToCheck(r.aUser, r.aAction, r.aNewLevel, r.aViews)
       IN  proc' = [proc EXCEPT ![p] = LoopAch([r EXCEPT !.todo = c, !.cand = c])]
    /\ UNCHANGED <<dbVars, histVars, opsLeft, viewVars>>

\* const existingAchievement = await Achievement.findOne({user, achievementId})
Ach_FindOne(p) ==
    /\ proc[p].pc = "a_find"
    /\ LET r == proc[p]
           a == Head(r.todo)
       IN  proc' = [proc EXCEPT ![p] =
             IF ach[r.aUser][a] > 0
             THEN LoopAch([r EXCEPT !.todo = Tail(r.todo)])
             ELSE [r EXCEPT !.pc = "a_create"]]
    /\ UNCHANGED <<dbVars, histVars, opsLeft, viewVars>>

\* await Achievement.create({...}); a duplicate key is thrown, caught by the
\* catch of checkAndAwardAchievements, which returns [].
Ach_Create(p) ==
    /\ proc[p].pc = "a_create"
    /\ LET r == proc[p]
           a == Head(r.todo)
       IN  IF UniqueViolation(r.aUser, a)
           THEN /\ proc' = [proc EXCEPT ![p] = ReturnAch(r, <<>>)]
                /\ UNCHANGED ach
           ELSE /\ ach' = [ach EXCEPT ![r.aUser][a] = @ + 1]
                /\ proc' = [proc EXCEPT ![p].pc = "a_bonus"]
    /\ UNCHANGED <<points, level, userExists, docs, nPublished, extraLikes,
                   commentCount, comments, histVars, opsLeft, viewVars>>

\* await User.findByIdAndUpdate(userId, {$inc: {points: template.points}});
\* newAchievements.push(achievement)
Ach_AwardBonus(p) ==
    /\ proc[p].pc = "a_bonus"
    /\ LET r == proc[p]
           a == Head(r.todo)
       IN  /\ points' = IncPoints(p, r.aUser, TemplatePoints(a))
           /\ deltaSum' = IncDelta(r.aUser, TemplatePoints(a))
           /\ proc' = [proc EXCEPT ![p] =
                LoopAch([r EXCEPT !.todo = Tail(r.todo),
                                  !.newAch = Append(r.newAch, a)])]
    /\ UNCHANGED <<level, userExists, ach, docs, nPublished, extraLikes,
                   commentCount, comments, pointsInit, opsLeft, viewVars>>

AchStep(p) ==
    \/ Ach_FindUser(p)
    \/ Ach_Query(p)
    \/ Ach_FindOne(p)
    \/ Ach_Create(p)
    \/ Ach_AwardBonus(p)

-----------------------------------------------------------------------------
(* Like toggle: controllers/storyController.ts toggleLike,                   *)
(* controllers/commentController.ts toggleCommentLike (the services          *)
(* StoryService.toggleLike and CommentService.toggleCommentLike are the same *)
(* code).                                                                    *)

\* story.likes.includes(userId)
Includes(likes, r) == \E i \in 1..Len(likes) : likes[i] = r

\* story.likes.filter(like => !like.equals(userId))
RECURSIVE Without(_, _)
Without(likes, r) ==
    IF likes = <<>> THEN <<>>
    ELSE IF Head(likes) = r THEN Without(Tail(likes), r)
    ELSE <<Head(likes)>> \o Without(Tail(likes), r)

\* await story.save().  The pre('save') hook sets likesCount to the length of
\* the document's own likes array; Mongoose then sends the changes of the
\* document: an array changed by push() goes out as $push of the pushed
\* element, an array that was assigned goes out as $set of the whole array,
\* likesCount as $set.  The schemas set versionKey: false, so the update
\* carries no version condition.
SaveLikes(d, kind, local, r) ==
    [d EXCEPT !.likes = IF kind = "push" THEN Append(d.likes, r) ELSE local,
              !.likesCount = Len(local)]

\* The owner's reward without the test on hasLiked.
AwardsOwnerOnUnlike(liked, author, r) == author # r

\* The owner's reward without the test on the author.
AwardsOwnerAlsoSelf(liked, author, r) == ~liked

\* if (!hasLiked) { ...; if (story.author.toString() !== userId.toString())
\* { award } }: a new like by someone other than the author is rewarded.
AwardsOwner(liked, author, r) == ~liked /\ author # r

\* const story = await Story.findById(id), then the synchronous branch on
\* hasLiked up to the next await.
Toggle_Find(p, reactors, targets) ==
    /\ proc[p].pc = "idle"
    /\ FreeSlot(p)
    /\ opsLeft > 0
    /\ opsLeft' = opsLeft - 1
    /\ \E r \in reactors, t \in targets :
         LET d == docs[t]
             liked == Includes(d.likes, r)
         IN  proc' = [proc EXCEPT ![p] =
               [IdleProc EXCEPT
                  !.op = "toggle", !.user = r, !.target = t, !.hasLiked = liked,
                  !.likesLocal = IF liked THEN Without(d.likes, r)
                                 ELSE Append(d.likes, r),
                  !.saveKind = IF liked THEN "set" ELSE "push",
                  !.pc = IF AwardsOwner(liked, d.author, r) THEN "t_inc"
                         ELSE "t_save"]]
    /\ UNCHANGED <<dbVars, histVars, viewVars>>

\* await User.findByIdAndUpdate(story.author, {$inc: {points: 1}}); a story
\* then dispatches STORY_LIKED for its author, a comment dispatches nothing.
Toggle_Reward(p) ==
    /\ proc[p].pc = "t_inc"
    /\ LET r == proc[p]
           owner == docs[r.target].author
       IN  /\ points' = IncPoints(p, owner, BaseReward("toggle"))
           /\ deltaSum' = IncDelta(owner, BaseReward("toggle"))
           /\ proc' = [proc EXCEPT ![p] =
                IF docs[r.target].kind = "story"
                THEN CallAch(r, owner, "STORY_LIKED", "none", 0, "t_save")
                ELSE [r EXCEPT !.pc = "t_save"]]
    /\ UNCHANGED <<level, userExists, ach, docs, nPublished, extraLikes,
                   commentCount, comments, pointsInit, opsLeft, viewVars>>

\* await story.save(); the response carries the document's likesCount.
Toggle_Save(p) ==
    /\ proc[p].pc = "t_save"
    /\ LET r == proc[p]
       IN  /\ docs' = [docs EXCEPT ![r.target] =
                         SaveLikes(@, r.saveKind, r.likesLocal, r.user)]
           /\ proc' = [proc EXCEPT ![p].pc = "t_done",
                                   ![p].countLocal = Len(r.likesLocal)]
    /\ UNCHANGED <<points, level, userExists, ach, nPublished, extraLikes,
                   commentCount, comments, histVars, opsLeft, viewVars>>

-----------------------------------------------------------------------------
(* createStory: controllers/storyController.ts (variant "controller", the    *)
(* handler the routes use) and StoryService.createStory (variant "service"). *)
(* They differ in where oldLevel comes from: the controller takes            *)
(* req.user.level, loaded by the authenticate middleware before the handler  *)
(* runs; the service reads the user again after the achievements call.       *)

\* authenticate: req.user = await User.findById(decoded.userId)
Story_Start(p, authors, variants) ==
    /\ proc[p].pc = "idle"
    /\ FreeSlot(p)
    /\ opsLeft > 0
    /\ opsLeft' = opsLeft - 1
    /\ \E u \in authors, pub \in BOOLEAN, v \in variants :
         proc' = [proc EXCEPT ![p] =
            [IdleProc EXCEPT !.op = "story", !.user = u, !.published = pub,
                             !.variant = v, !.oldLevel = level[u], !.pc = "s_create"]]
    /\ UNCHANGED <<dbVars, histVars, viewVars>>

\* const story = await Story.create(storyData); isPublished defaults to true
\* and may be sent false in the body.
Story_Create(p) ==
    /\ proc[p].pc = "s_create"
    /\ LET r == proc[p]
       IN  /\ nPublished' = [nPublished EXCEPT ![r.user] =
                               IF r.published THEN @ + 1 ELSE @]
           /\ proc' = [proc EXCEPT ![p].pc = "s_inc"]
    /\ UNCHANGED <<points, level, userExists, ach, docs, extraLikes, commentCount, comments,
                   histVars, opsLeft, viewVars>>

\* const updatedUser = await User.findByIdAndUpdate(userId, {$inc: {points:
\* 10}}, {new: true}); the service throws 'User not found' on null, the
\* controller goes on with updatedUser!.  Then checkAndAwardAchievements(
\* userId, 'STORY_CREATED') is called.
Story_Reward(p) ==
    /\ proc[p].pc = "s_inc"
    /\ LET r == proc[p]
           np == IncPoints(p, r.user, BaseReward("story"))
       IN  /\ points' = np
           /\ deltaSum' = IncDelta(r.user, BaseReward("story"))
           /\ proc' = [proc EXCEPT ![p] =
                IF ~userExists[r.user] /\ r.variant = "service"
                THEN [r EXCEPT !.pc = "s_error"]
                ELSE CallAch([r EXCEPT !.updatedPts = np[r.user],
                                       !.updatedNull = ~userExists[r.user]],
                             r.user, "STORY_CREATED", "none", 0, "s_check")]
    /\ UNCHANGED <<level, userExists, ach, docs, nPublished, extraLikes,
                   commentCount, comments, pointsInit, opsLeft, viewVars>>

\* newAchievements is the first call's result.  Service: const currentUser =
\* await User.findById(userId); oldLevel = currentUser?.level.  Then
\* newLevelInfo = getUserLevelInfo(updatedUser.points), computed from the
\* points returned by the +10 update, and the test oldLevel !== newLevel.
Story_CheckLevel(p) ==
    /\ proc[p].pc = "s_check"
    /\ LET r == proc[p]
           old == IF r.variant = "service"
                  THEN (IF userExists[r.user] THEN level[r.user] ELSE "none")
                  ELSE r.oldLevel
           new == getUserLevelInfo(r.updatedPts)
       IN  proc' = [proc EXCEPT ![p] =
             IF r.updatedNull THEN [r EXCEPT !.pc = "s_error"]
             ELSE [r EXCEPT !.respAch = r.achRes, !.oldLevel = old, !.newLevel = new,
                            !.pc = IF old # new THEN "s_setlevel" ELSE "s_done"]]
    /\ UNCHANGED <<dbVars, histVars, opsLeft, viewVars>>

\* await User.findByIdAndUpdate(userId, {level: newLevelInfo.level}); then
\* checkAndAwardAchievements(userId, 'LEVEL_UP', {newLevel}) is called and its
\* result dropped; levelUpInfo = {from: oldLevel, to: newLevel}.
Story_SetLevel(p) ==
    /\ proc[p].pc = "s_setlevel"
    /\ LET r == proc[p]
       IN  /\ level' = IF userExists[r.user]
                       THEN [level EXCEPT ![r.user] = r.newLevel] ELSE level
           /\ proc' = [proc EXCEPT ![p] =
                CallAch([r EXCEPT !.levelUp = TRUE],
                        r.user, "LEVEL_UP", r.newLevel, 0, "s_done")]
    /\ UNCHANGED <<points, userExists, ach, docs, nPublished, extraLikes,
                   commentCount, comments, histVars, opsLeft, viewVars>>

-----------------------------------------------------------------------------
(* createComment: controllers/commentController.ts (CommentService.          *)
(* createComment is the same code).                                          *)

\* parentComment: parentComment || null
NoParent == 0

\* The comment and its reply that story s1 has when a run about comment
\* threads starts.
SeedThread ==
    {[id |-> 1, parent |-> NoParent, author |-> "u2"],
     [id |-> 2, parent |-> 1, author |-> "u3"]}

\* The _id of the next created comment: never one used before.
NewCommentId == Cardinality(SeedThread) + (MaxOps - opsLeft) + 1

\* if (parentComment) the parent is looked up and must exist on the story;
\* const comment = await Comment.create({content, author, story,
\* parentComment: parentComment || null})
Comment_Create(p, commenters, parents) ==
    /\ proc[p].pc = "idle"
    /\ FreeSlot(p)
    /\ opsLeft > 0
    /\ opsLeft' = opsLeft - 1
    /\ \E u \in commenters, par \in parents :
         /\ par # NoParent => \E c \in comments : c.id = par
         /\ commentCount' = [commentCount EXCEPT ![u] = @ + 1]
         /\ comments' = comments \cup {[id |-> NewCommentId, parent |-> par, author |-> u]}
         /\ proc' = [proc EXCEPT ![p] =
              [IdleProc EXCEPT !.op = "comment", !.user = u, !.target = "s1",
                               !.pc = "c_story"]]
    /\ UNCHANGED <<points, level, userExists, ach, docs, nPublished, extraLikes,
                   histVars, viewVars>>

\* await Story.findByIdAndUpdate(storyId, {$inc: {commentsCount: 1}})
Comment_IncStory(p) ==
    /\ proc[p].pc = "c_story"
    /\ docs' = [docs EXCEPT ![proc[p].target].commentsCount = @ + 1]
    /\ proc' = [proc EXCEPT ![p].pc = "c_inc"]
    /\ UNCHANGED <<points, level, userExists, ach, nPublished, extraLikes,
                   commentCount, comments, histVars, opsLeft, viewVars>>

\* await User.findByIdAndUpdate(req.user._id, {$inc: {points: 2}}); no
\* achievement event is dispatched.
Comment_Reward(p) ==
    /\ proc[p].pc = "c_inc"
    /\ points' = IncPoints(p, proc[p].user, BaseReward("comment"))
    /\ deltaSum' = IncDelta(proc[p].user, BaseReward("comment"))
    /\ proc' = [proc EXCEPT ![p].pc = "c_done"]
    /\ UNCHANGED <<level, userExists, ach, docs, nPublished, extraLikes,
                   commentCount, comments, pointsInit, opsLeft, viewVars>>

DonePcs == {"t_done", "s_done", "c_done", "d_done"}

\* The response has been sent; the worker takes the next request.
Finish(p) ==
    /\ proc[p].pc \in DonePcs
    /\ proc' = [proc EXCEPT ![p] = IdleProc]
    /\ UNCHANGED <<dbVars, histVars, opsLeft, viewVars>>

Quiet == \A p \in Procs : proc[p].pc \in DonePcs \cup {"idle"}

-----------------------------------------------------------------------------
(* The state every specification starts from, up to the fields it draws. *)

DefaultDocs ==
    [t \in {"s1", "c1"} |->
        [kind |-> IF t = "s1" THEN "story" ELSE "comment",
         author |-> IF t = "s1" THEN "u1" ELSE "u2",
         likes |-> <<>>, likesCount |-> 0, commentsCount |-> 0]]

IdleView ==
    [pc |-> "idle", key |-> "none", cookie |-> FALSE, counted |-> FALSE,
     now |-> 0, after |-> {}, swept |-> FALSE, setAt |-> 0]

InitCommon ==
    /\ userExists = [u \in Users |-> TRUE]
    /\ ach = [u \in Users |-> [a \in AchIds |-> 0]]
    /\ comments = {}
    /\ deltaSum = [u \in Users |-> 0]
    /\ proc = [p \in Procs |-> IdleProc]
    /\ opsLeft = MaxOps
    /\ recentViews = <<>>
    /\ viewsCount = 0
    /\ clock = 0
    /\ vreq = [p \in Procs |-> IdleView]

-----------------------------------------------------------------------------
(* SpecAch: concurrent dispatches of checkAndAwardAchievements.  Each worker *)
(* dispatches one event and keeps the call's locals once it has returned.    *)

InitAch ==
    /\ InitCommon
    /\ pointsInit = [u \in Users |-> 0]
    /\ points = pointsInit
    /\ level = [u \in Users |-> getUserLevelInfo(points[u])]
    /\ docs = DefaultDocs
    /\ \E n \in {1, 5} : nPublished = [u \in Users |-> n]
    /\ \E n \in {PopularLikes - 1, PopularLikes} : extraLikes = [u \in Users |-> n]
    /\ \E n \in {SocialComments - 1, SocialComments} : commentCount = [u \in Users |-> n]

Ach_Dispatch(p) ==
    /\ proc[p].pc = "idle"
    /\ FreeSlot(p)
    /\ \E u \in {"u1", "u2"}, action \in AchActions,
          nl \in {"intermediate", "advanced"}, v \in {KingViews - 1, KingViews} :
         /\ action # "LEVEL_UP" => nl = "intermediate"
         /\ action # "STORY_VIEWS" => v = KingViews
         /\ proc' = [proc EXCEPT ![p] =
              CallAch([IdleProc EXCEPT !.op = "dispatch", !.user = u],
                      u, action,
                      IF action = "LEVEL_UP" THEN nl ELSE "none",
                      IF action = "STORY_VIEWS" THEN v ELSE 0,
                      "a_done")]
    /\ UNCHANGED <<dbVars, histVars, opsLeft, viewVars>>

NextAch ==
    \E p \in Procs :
        \/ Ach_Dispatch(p)
        \/ Ach_FindUser(p)
        \/ Ach_Query(p)
        \/ Ach_FindOne(p)
        \/ Ach_Create(p)
        \/ Ach_AwardBonus(p)

SpecAch == InitAch /\ [][NextAch]_vars

RECURSIVE SumBonus(_, _)
SumBonus(u, S) ==
    IF S = {} THEN 0
    ELSE LET a == CHOOSE x \in S : TRUE
         IN  ach[u][a] * TemplatePoints(a) + SumBonus(u, S \ {a})

AllReturned == \A p \in Procs : proc[p].pc = "a_done"

\* C1: however the steps of concurrent dispatches of the same qualifying
\* event interleave, a (user, achievementId) pair never has more than one
\* unlock record, and once every dispatch has returned each candidate of each
\* dispatch has exactly one record and the user's points have grown by the
\* bonus of each recorded unlock exactly once.
C1_OneUnlockOneBonus ==
    /\ \A u \in Users, a \in AchIds : ach[u][a] <= 1
    /\ AllReturned =>
         /\ \A p \in Procs : \A i \in 1..Len(proc[p].cand) :
               ach[proc[p].aUser][proc[p].cand[i]] = 1
         /\ \A u \in Users : points[u] = pointsInit[u] + SumBonus(u, AchIds)

\* Two dispatches of the same qualifying event have both returned; one of
\* them lost the race for the record (its create was rejected).
C1_Witness ==
    /\ AllReturned
    /\ \E p, q \in Procs :
         /\ p # q
         /\ proc[p].aUser = proc[q].aUser
         /\ proc[p].cand = proc[q].cand
         /\ proc[p].cand # <<>>
         /\ proc[p].achRes # <<>>
         /\ proc[q].achRes = <<>>
         /\ ach[proc[p].aUser][proc[p].cand[1]] = 1

-----------------------------------------------------------------------------
(* SpecLike: concurrent like toggles on one story (author u1) and one        *)
(* comment (author u2) by reactors u1, u2, u3.                               *)

InitLike ==
    /\ InitCommon
    /\ \E n \in {0, IntermediateMin - 1} :
          pointsInit = [u \in Users |-> IF u = "u1" THEN n ELSE 0]
    /\ points = pointsInit
    /\ level = [u \in Users |-> getUserLevelInfo(points[u])]
    /\ \E l \in {<<>>, <<"u2">>} :
          docs = [DefaultDocs EXCEPT !["s1"].likes = l, !["s1"].likesCount = Len(l)]
    /\ nPublished = [u \in Users |-> IF u = "u1" THEN 1 ELSE 0]
    /\ \E n \in {0, PopularLikes - 1} :
          extraLikes = [u \in Users |-> IF u = "u1" THEN n ELSE 0]
    /\ commentCount = [u \in Users |-> IF u = "u2" THEN 1 ELSE 0]

NextLike ==
    \E p \in Procs :
        \/ Toggle_Find(p, Users, DOMAIN docs)
        \/ Toggle_Reward(p)
        \/ Toggle_Save(p)
        \/ Finish(p)
        \/ Ach_FindUser(p)
        \/ Ach_Query(p)
        \/ Ach_FindOne(p)
        \/ Ach_Create(p)
        \/ Ach_AwardBonus(p)

SpecLike == InitLike /\ [][NextLike]_vars

\* C2: when two different reactors have each toggled the like of the same
\* target once (and nothing else was requested), the liked-by array reflects
\* both toggles: a reactor that liked is in it, a reactor that unliked is not.
C2_BothTogglesLand ==
    \A p, q \in Procs :
        ( /\ p # q
          /\ opsLeft = MaxOps - 2
          /\ proc[p].pc = "t_done" /\ proc[q].pc = "t_done"
          /\ proc[p].target = proc[q].target
          /\ proc[p].user # proc[q].user )
        => ( Includes(docs[proc[p].target].likes, proc[p].user) <=> ~proc[p].hasLiked )

\* C3: the stored likesCount of a story or comment equals the number of
\* elements of its stored likes array, after every completed toggle.
C3_CountIsCardinality ==
    \A t \in DOMAIN docs : docs[t].likesCount = Len(docs[t].likes)

\* C8: once like rewards have raised a user's points from below 100 to 100 or
\* more and no request is in flight, the user's level is intermediate and
\* LEVEL_UP_INTERMEDIATE has exactly one unlock record.
C8_LikesLevelUp ==
    \A u \in Users :
        (Quiet /\ pointsInit[u] < IntermediateMin /\ points[u] >= IntermediateMin)
        => (level[u] = "intermediate" /\ ach[u]["LEVEL_UP_INTERMEDIATE"] = 1)

\* A like toggle whose reactor is the author of its target.
SelfToggle(r) == r.op = "toggle" /\ r.user = docs[r.target].author

\* The document a toggle is about to save is still as the toggle read it.
ReadIsCurrent(r) ==
    LET d == docs[r.target]
    IN  /\ Includes(d.likes, r.user) = r.hasLiked
        /\ r.likesLocal = IF r.hasLiked THEN Without(d.likes, r.user)
                          ELSE Append(d.likes, r.user)

\* C12: no step of a like toggle made by the owner of its target (story
\* author or comment author) changes anybody's points or any unlock record,
\* and such a toggle never enters the reward or the achievement check; when
\* it saves a document nobody changed since it read it, the reactor is added
\* to (or removed from) the liked-by array, the other reactors stay as they
\* were, and the count is the array's size.
C12_SelfToggleNoPoints ==
    [][\A p \in Procs :
          ( /\ proc'[p] # proc[p]
            /\ SelfToggle(proc[p]) \/ SelfToggle(proc'[p]) )
          => /\ points' = points
             /\ ach' = ach
             /\ proc'[p].pc \in {"t_save", "t_done", "idle"}
             /\ ( proc[p].pc = "t_save" /\ ReadIsCurrent(proc[p]) )
                => LET d == docs'[proc[p].target]
                   IN  /\ Includes(d.likes, proc[p].user) = ~proc[p].hasLiked
                       /\ d.likesCount = Len(d.likes)
                       /\ Without(d.likes, proc[p].user)
                            = Without(docs[proc[p].target].likes, proc[p].user)
      ]_vars

\* The author of the story has liked it and then unliked it (two self-toggles
\* in a row) while one more like would have unlocked POPULAR_WRITER; the
\* author's points are what they were.
C12_Witness ==
    \E p \in Procs :
        /\ proc[p].pc = "t_done" /\ proc[p].target = "s1" /\ proc[p].user = "u1"
        /\ proc[p].hasLiked
        /\ ~Includes(docs["s1"].likes, "u1")
        /\ opsLeft = MaxOps - 2
        /\ extraLikes["u1"] = PopularLikes - 1
        /\ points["u1"] = pointsInit["u1"]
        /\ ach["u1"]["POPULAR_WRITER"] = 0

\* C13: when a reactor who had liked a target of somebody else has unliked
\* it and then liked it again (nothing else was requested; the reactor is
\* in the liked-by array again), the owner has received no further like
\* reward: the sum of the deltas applied to the owner since the reactor was
\* first in the liked-by array is 0.
C13_RelikeNoReward ==
    \A p, q \in Procs :
        ( /\ p # q
          /\ opsLeft = MaxOps - 2
          /\ proc[q].op = "toggle" /\ proc[q].pc = "t_done" /\ proc[q].hasLiked
          /\ proc[p].op = "toggle" /\ proc[p].pc = "t_done" /\ ~proc[p].hasLiked
          /\ proc[p].user = proc[q].user
          /\ proc[p].target = proc[q].target
          /\ proc[p].user # docs[proc[p].target].author
          /\ Includes(docs[proc[p].target].likes, proc[p].user) )
        => deltaSum[docs[proc[p].target].author] = 0

\* C18: when the only request of a run, a like of a story by somebody other
\* than its author, has completed and the likes of the author's stories now
\* total 25, the POPULAR_WRITER unlock record of the author exists.
C18_PopularWriterAtThreshold ==
    \A p \in Procs :
        ( /\ opsLeft = MaxOps - 1
          /\ proc[p].op = "toggle" /\ proc[p].pc = "t_done"
          /\ docs[proc[p].target].kind = "story"
          /\ ~proc[p].hasLiked
          /\ proc[p].user # docs[proc[p].target].author
          /\ TotalLikes(docs[proc[p].target].author) = PopularLikes )
        => ach[docs[proc[p].target].author]["POPULAR_WRITER"] = 1

\* A like toggle that found its reactor in the liked-by array: an unlike.
Unlike(r) == r.op = "toggle" /\ r.hasLiked

\* C22: no step of an unlike changes anybody's points or any unlock record,
\* an unlike never enters the reward or the achievement check, and its save
\* leaves the reactor out of the stored liked-by array.
C22_UnlikeKeepsPoints ==
    [][\A p \in Procs :
          ( /\ proc'[p] # proc[p]
            /\ Unlike(proc[p]) \/ Unlike(proc'[p]) )
          => /\ points' = points
             /\ ach' = ach
             /\ proc'[p].pc \in {"t_save", "t_done", "idle"}
             /\ proc[p].pc = "t_save"
                => ~Includes(docs'[proc[p].target].likes, proc[p].user)
      ]_vars

\* u2, who had liked the story of u1, has unliked it: u2 is no longer in the
\* liked-by array and u1 has the points it had.
C22_Witness ==
    \E p \in Procs :
        /\ opsLeft = MaxOps - 1
        /\ proc[p].pc = "t_done" /\ proc[p].target = "s1" /\ proc[p].user = "u2"
        /\ proc[p].hasLiked
        /\ ~Includes(docs["s1"].likes, "u2")
        /\ points["u1"] = pointsInit["u1"]

-----------------------------------------------------------------------------
(* SpecEng: every kind of reward landing on one user, u1: u1 creates         *)
(* stories (through the routed controller) and comments while u1's story is  *)
(* liked and unliked by u2 and by u1.                                        *)

InitEng ==
    /\ InitCommon
    /\ \E n \in {0, IntermediateMin - 1} :
          pointsInit = [u \in Users |-> IF u = "u1" THEN n ELSE 0]
    /\ points = pointsInit
    /\ level = [u \in Users |-> getUserLevelInfo(points[u])]
    /\ docs = DefaultDocs
    /\ nPublished = [u \in Users |-> 0]
    /\ extraLikes = [u \in Users |-> 0]
    /\ commentCount = [u \in Users |-> 0]

NextEng ==
    \E p \in Procs :
        \/ Story_Start(p, {"u1"}, {"controller"})
        \/ Story_Create(p)
        \/ Story_Reward(p)
        \/ Story_CheckLevel(p)
        \/ Story_SetLevel(p)
        \/ Comment_Create(p, {"u1"}, {NoParent})
        \/ Comment_IncStory(p)
        \/ Comment_Reward(p)
        \/ Toggle_Find(p, {"u1", "u2"}, {"s1"})
        \/ Toggle_Reward(p)
        \/ Toggle_Save(p)
        \/ Finish(p)
        \/ Ach_FindUser(p)
        \/ Ach_Query(p)
        \/ Ach_FindOne(p)
        \/ Ach_Create(p)
        \/ Ach_AwardBonus(p)

SpecEng == InitEng /\ [][NextEng]_vars

\* C4: every delta applied to a user is reflected in the stored total: the
\* points of a user equal the initial points plus the sum of the deltas
\* applied so far (story, like and comment rewards, achievement bonuses),
\* whatever the interleaving, and are never negative.
C4_NoLostUpdate ==
    \A u \in Users : points[u] = pointsInit[u] + deltaSum[u] /\ points[u] >= 0

\* A createStory of u1 has applied its +10 and is about to apply an
\* achievement bonus while a like of u1's story by someone else, which has
\* applied its +1, is still in flight.
C4_Witness ==
    \E p, q \in Procs :
        /\ p # q
        /\ proc[p].op = "story" /\ proc[p].user = "u1" /\ proc[p].pc = "a_bonus"
        /\ proc[q].op = "toggle" /\ proc[q].target = "s1" /\ proc[q].pc = "t_save"
        /\ proc[q].user # "u1" /\ ~proc[q].hasLiked
        /\ deltaSum["u1"] = StoryReward + LikeReward

\* C9: when no request is in flight, the stored level of every user is the
\* level getUserLevelInfo computes from the user's stored points.
C9_LevelMatchesPoints ==
    Quiet => \A u \in Users : level[u] = getUserLevelInfo(points[u])

-----------------------------------------------------------------------------
(* SpecStory: story creation by u1, through the controller and through the   *)
(* service.                                                                  *)

InitStory ==
    /\ InitCommon
    /\ \E n \in {0, IntermediateMin - StoryReward} :
          pointsInit = [u \in Users |-> IF u = "u1" THEN n ELSE 0]
    /\ points = pointsInit
    /\ level = [u \in Users |-> getUserLevelInfo(points[u])]
    /\ docs = DefaultDocs
    /\ nPublished = [u \in Users |-> 0]
    /\ extraLikes = [u \in Users |-> 0]
    /\ commentCount = [u \in Users |-> 0]

NextStory ==
    \E p \in Procs :
        \/ Story_Start(p, {"u1"}, {"controller", "service"})
        \/ Story_Create(p)
        \/ Story_Reward(p)
        \/ Story_CheckLevel(p)
        \/ Story_SetLevel(p)
        \/ Finish(p)
        \/ Ach_FindUser(p)
        \/ Ach_Query(p)
        \/ Ach_FindOne(p)
        \/ Ach_Create(p)
        \/ Ach_AwardBonus(p)

SpecStory == InitStory /\ [][NextStory]_vars

\* C17: every user starts the run with no published story; when no request
\* is in flight, for each threshold n in {1, 5, 10} that the user's number of
\* published stories has reached or passed, the unlock record of the
\* threshold's achievement exists.
C17_MilestoneUnlocked ==
    Quiet =>
        \A u \in Users :
            /\ nPublished[u] >= 1 => ach[u]["FIRST_STORY"] = 1
            /\ nPublished[u] >= 5 => ach[u]["STORY_MILESTONE_5"] = 1
            /\ nPublished[u] >= 10 => ach[u]["STORY_MILESTONE_10"] = 1

\* C21: when the only request of a run, a createStory, has completed, every
\* unlock record it created for the author (no record existed before) is in
\* the newAchievements list of its response.
C21_NewUnlocksReturned ==
    \A p \in Procs :
        ( /\ opsLeft = MaxOps - 1
          /\ proc[p].op = "story" /\ proc[p].pc = "s_done" )
        => \A a \in AchIds :
              ach[proc[p].user][a] = 1 => Includes(proc[p].respAch, a)

\* C10: a user with 0 points and no stories who publishes one story, with no
\* other request made, ends with 25 points, exactly one FIRST_STORY record
\* (returned as the newly unlocked achievement), and level beginner.
C10_FirstStory ==
    \A p \in Procs :
        ( /\ proc[p].pc = "s_done"
          /\ proc[p].published
          /\ opsLeft = MaxOps - 1
          /\ pointsInit[proc[p].user] = 0 )
        => ( /\ points[proc[p].user] = 25
             /\ ach[proc[p].user]["FIRST_STORY"] = 1
             /\ SumBonus(proc[p].user, AchIds) = 15
             /\ proc[p].respAch = <<"FIRST_STORY">>
             /\ level[proc[p].user] = "beginner"
             /\ ~proc[p].levelUp )

C10_Witness ==
    \E p \in Procs :
        /\ proc[p].pc = "s_done"
        /\ proc[p].published
        /\ opsLeft = MaxOps - 1
        /\ pointsInit[proc[p].user] = 0
        /\ points[proc[p].user] = 25

-----------------------------------------------------------------------------
(* View de-duplication: getStoryById of controllers/storyController.ts with  *)
(* the module-level recentViews Map and its setInterval sweep                *)
(* (StoryService.incrementViewCount is the same decision and the same        *)
(* order of operations).                                                     *)

ExpireTime == 10000

\* viewKey = `${req.ip}_${id}`: two viewers of one story.
ViewKeys == {"ip1_s1", "ip2_s1"}

\* if (!hasViewedRecently && !hasViewedInMemory): the cookie sent by the
\* caller and recentViews.has(viewKey).
ShouldCountIgnoringCookie(cookie, key) == key \notin DOMAIN recentViews

ShouldCount(cookie, key) == ~cookie /\ key \notin DOMAIN recentViews

\* recentViews.set(viewKey, now)
SetRecentDropped(m, key, t) == m

SetRecent(m, key, t) == [k \in DOMAIN m \cup {key} |-> IF k = key THEN t ELSE m[k]]

\* if (now - timestamp > expireTime), with the clock in seconds and
\* expireTime in milliseconds.
Expired(t, ts) == (t - ts) * 1000 > ExpireTime

FreeViewSlot(p) == \A q \in Procs : q < p => vreq[q].pc # "idle"

\* const story = await Story.findById(id); then, synchronously, the cookie,
\* recentViews.has(viewKey), now = Date.now() and the decision.
View_Find(p) ==
    /\ vreq[p].pc = "idle"
    /\ FreeViewSlot(p)
    /\ opsLeft > 0
    /\ opsLeft' = opsLeft - 1
    /\ \E key \in ViewKeys, cookie \in BOOLEAN :
         vreq' = [vreq EXCEPT ![p] =
            [IdleView EXCEPT
               !.key = key, !.cookie = cookie, !.now = clock,
               !.after = {q \in Procs \ {p} : vreq[q].pc = "v_done"},
               !.pc = IF ShouldCount(cookie, key) THEN "v_inc" ELSE "v_done"]]
    /\ UNCHANGED <<dbVars, histVars, proc, recentViews, viewsCount, clock>>

\* await Story.findByIdAndUpdate(id, {$inc: {viewsCount: 1}})
View_Inc(p) ==
    /\ vreq[p].pc = "v_inc"
    /\ viewsCount' = viewsCount + 1
    /\ vreq' = [vreq EXCEPT ![p].pc = "v_set"]
    /\ UNCHANGED <<dbVars, histVars, proc, opsLeft, recentViews, clock>>

\* recentViews.set(viewKey, now); res.cookie(viewedCookieName, 'true', ...).
\* now was taken before the await; the request remembers when it inserted.
View_Set(p) ==
    /\ vreq[p].pc = "v_set"
    /\ recentViews' = SetRecent(recentViews, vreq[p].key, vreq[p].now)
    /\ vreq' = [vreq EXCEPT ![p].pc = "v_done", ![p].counted = TRUE,
                             ![p].setAt = clock]
    /\ UNCHANGED <<dbVars, histVars, proc, opsLeft, viewsCount, clock>>

\* The response has been sent; the worker takes the next request.
View_Finish(p) ==
    /\ vreq[p].pc = "v_done"
    /\ vreq' = [q \in Procs |->
                  IF q = p THEN IdleView
                  ELSE [vreq[q] EXCEPT !.after = @ \ {p}]]
    /\ UNCHANGED <<dbVars, histVars, proc, opsLeft, recentViews, viewsCount, clock>>

\* The setInterval callback: delete every entry with now - timestamp >
\* expireTime.  The timer's phase is unrelated to the requests, so the sweep
\* may run at any time.  A finished request remembers that its key was swept.
Sweep ==
    /\ recentViews' = [k \in {x \in DOMAIN recentViews :
                                 ~Expired(clock, recentViews[x])} |-> recentViews[k]]
    /\ vreq' = [q \in Procs |->
                  IF /\ vreq[q].pc = "v_done"
                     /\ vreq[q].key \in DOMAIN recentViews
                     /\ vreq[q].key \notin DOMAIN recentViews'
                  THEN [vreq[q] EXCEPT !.swept = TRUE]
                  ELSE vreq[q]]
    /\ UNCHANGED <<dbVars, histVars, proc, opsLeft, viewsCount, clock>>

\* Time passes, TickSeconds at a time.
Tick ==
    /\ clock + TickSeconds <= MaxClock
    /\ clock' = clock + TickSeconds
    /\ UNCHANGED <<dbVars, histVars, proc, opsLeft, recentViews, viewsCount, vreq>>

InitView ==
    /\ InitCommon
    /\ pointsInit = [u \in Users |-> 0]
    /\ points = pointsInit
    /\ level = [u \in Users |-> getUserLevelInfo(points[u])]
    /\ docs = DefaultDocs
    /\ nPublished = [u \in Users |-> IF u = "u1" THEN 1 ELSE 0]
    /\ extraLikes = [u \in Users |-> 0]
    /\ commentCount = [u \in Users |-> 0]

NextView ==
    \/ \E p \in Procs :
        \/ View_Find(p)
        \/ View_Inc(p)
        \/ View_Set(p)
        \/ View_Finish(p)
    \/ Sweep
    \/ Tick

SpecView == InitView /\ [][NextView]_vars

\* C5: two requests for one viewer key without the long-term marker, made
\* within the short TTL (and no other request), are counted exactly once.
C5_RapidCountedOnce ==
    \A p, q \in Procs :
        ( /\ p # q
          /\ opsLeft = MaxOps - 2
          /\ vreq[p].pc = "v_done" /\ vreq[q].pc = "v_done"
          /\ vreq[p].key = vreq[q].key
          /\ ~vreq[p].cookie /\ ~vreq[q].cookie
          /\ ~Expired(clock, 0) )
        => (vreq[p].counted # vreq[q].counted /\ viewsCount = 1)

\* C6: a request is counted exactly when, at its check, the long-term marker
\* is absent and the cache has no entry for its key; the view counter moves
\* only by the +1 of a request that decided to count, and each such request
\* adds its +1.
C6_CountedIff ==
    [][ /\ \A p \in Procs :
             (vreq[p].pc = "idle" /\ vreq'[p].pc # "idle")
             => ( vreq'[p].pc = "v_inc"
                  <=> (~vreq'[p].cookie /\ vreq'[p].key \notin DOMAIN recentViews) )
        /\ \A p \in Procs :
             (vreq[p].pc = "idle" /\ vreq'[p].pc = "v_done")
             => (~vreq'[p].counted /\ viewsCount' = viewsCount)
        /\ \A p \in Procs :
             (vreq[p].pc = "v_inc" /\ vreq'[p].pc # "v_inc")
             => viewsCount' = viewsCount + 1
        /\ viewsCount' # viewsCount
             => \E p \in Procs : vreq[p].pc = "v_inc" /\ vreq'[p].pc = "v_set"
      ]_vars

\* A request carrying the marker was refused although the cache has no entry
\* for its key, and a request without marker and without entry was counted.
C6_Witness ==
    \E p, q \in Procs :
        /\ vreq[p].pc = "v_done" /\ vreq[p].cookie /\ ~vreq[p].counted
        /\ vreq[p].key \notin DOMAIN recentViews
        /\ vreq[q].pc = "v_done" /\ ~vreq[q].cookie /\ vreq[q].counted
        /\ viewsCount = 1

\* C7: a counted request p has completed before request q for the same key
\* began, neither carrying the marker.  If the key's entry has not been swept,
\* q is not counted; and when these are the only two requests and q's check
\* comes within the TTL of p's, q is not counted and the counter stands at 1.
C7_SecondNotCounted ==
    \A p, q \in Procs :
        ( /\ p # q
          /\ vreq[p].pc = "v_done" /\ vreq[q].pc = "v_done"
          /\ vreq[p].key = vreq[q].key
          /\ ~vreq[p].cookie /\ ~vreq[q].cookie
          /\ p \in vreq[q].after
          /\ vreq[p].counted )
        => /\ ~vreq[p].swept => ~vreq[q].counted
           /\ (opsLeft = MaxOps - 2 /\ ~Expired(vreq[q].now, vreq[p].now))
                 => (~vreq[q].counted /\ viewsCount = 1)

\* The second request came one tick (2 seconds) after the counted first one
\* had completed, and was not counted.
C7_Witness ==
    \E p, q \in Procs :
        /\ p # q
        /\ vreq[p].pc = "v_done" /\ vreq[q].pc = "v_done"
        /\ vreq[p].key = vreq[q].key
        /\ ~vreq[p].cookie /\ ~vreq[q].cookie
        /\ p \in vreq[q].after
        /\ vreq[p].counted /\ ~vreq[q].counted
        /\ vreq[q].now = vreq[p].now + TickSeconds
        /\ viewsCount = 1

\* C25: a step that removes a key from the view cache (a sweep) removes only
\* entries whose timestamp is more than the TTL old, and removes no key that
\* a request inserted within the TTL before the sweep.
C25_SweepKeepsFresh ==
    [][\A k \in DOMAIN recentViews :
          k \notin DOMAIN recentViews'
          => /\ (clock - recentViews[k]) * 1000 > 10000
             /\ \A p \in Procs :
                   ( /\ vreq[p].pc = "v_done" /\ vreq[p].counted
                     /\ vreq[p].key = k )
                   => (clock - vreq[p].setAt) * 1000 > 10000
      ]_vars

-----------------------------------------------------------------------------
(* SpecLevel: getUserLevelInfo applied to the stored points of a user, as    *)
(* getUserStats of controllers/userController.ts does for the authenticated  *)
(* user (levelInfo = getUserLevelInfo(req.user.points)).                     *)

MaxPoints == 505
NegPoints == 3

PointRange == (0 - NegPoints)..MaxPoints

LevelRank(l) ==
    CASE l = "beginner" -> 1
      [] l = "intermediate" -> 2
      [] l = "advanced" -> 3
      [] OTHER -> 0

InitLevel ==
    /\ InitCommon
    /\ \E n \in PointRange, d \in {0, 1} :
          pointsInit = [u \in Users |-> IF u = "u1" THEN n
                                        ELSE IF u = "u2" THEN n + d ELSE 0]
    /\ points = pointsInit
    /\ level = [u \in Users |-> getUserLevelInfo(points[u])]
    /\ docs = DefaultDocs
    /\ nPublished = [u \in Users |-> 0]
    /\ extraLikes = [u \in Users |-> 0]
    /\ commentCount = [u \in Users |-> 0]

\* getUserStats: req.user was loaded by authenticate; the response carries
\* levelInfo = getUserLevelInfo(req.user.points).  Nothing is written.
Stats_Get(p, callers) ==
    /\ proc[p].pc = "idle"
    /\ FreeSlot(p)
    /\ opsLeft > 0
    /\ opsLeft' = opsLeft - 1
    /\ \E u \in callers :
         proc' = [proc EXCEPT ![p] =
            [IdleProc EXCEPT !.op = "stats", !.user = u, !.userPts = points[u],
                             !.levelInfo = LevelInfoOf(points[u]),
                             !.pc = "p_done"]]
    /\ UNCHANGED <<dbVars, histVars, viewVars>>

\* The stats response has been sent.
Stats_Finish(p) ==
    /\ proc[p].pc = "p_done"
    /\ proc' = [proc EXCEPT ![p] = IdleProc]
    /\ UNCHANGED <<dbVars, histVars, opsLeft, viewVars>>

NextLevel ==
    \E p \in Procs :
        \/ Stats_Get(p, {"u1", "u2"})
        \/ Stats_Finish(p)

SpecLevel == InitLevel /\ [][NextLevel]_vars

\* C11: for every integer point total x >= 0 the level of getUserLevelInfo(x)
\* is beginner up to 99, intermediate from 100 to 499 and advanced from 500,
\* so it never decreases as x grows; beginner and intermediate carry a
\* nextLevel (intermediate, advanced) whose pointsNeeded is the next tier's
\* low bound minus x, advanced carries none; a negative x gives beginner.
C11_LevelInfo ==
    /\ \A p \in Procs :
         proc[p].pc = "p_done" =>
            LET x == proc[p].userPts
                i == proc[p].levelInfo
            IN  /\ x < 0 => i.level = "beginner"
                /\ (x >= 0 /\ x <= 99) => i.level = "beginner"
                /\ (x >= 100 /\ x <= 499) => i.level = "intermediate"
                /\ x >= 500 => i.level = "advanced"
                /\ (x >= 0 /\ i.level = "beginner") =>
                      /\ i.hasNext /\ i.nextLevel = "intermediate"
                      /\ i.pointsNeeded = IntermediateMin - x
                /\ (x >= 0 /\ i.level = "intermediate") =>
                      /\ i.hasNext /\ i.nextLevel = "advanced"
                      /\ i.pointsNeeded = AdvancedMin - x
                /\ i.level = "advanced" => ~i.hasNext
    /\ \A p, q \in Procs :
         ( /\ proc[p].pc = "p_done" /\ proc[q].pc = "p_done"
           /\ proc[p].userPts >= 0
           /\ proc[p].userPts <= proc[q].userPts )
         => LevelRank(proc[p].levelInfo.level) <= LevelRank(proc[q].levelInfo.level)

\* Two stats responses have been computed, one for 99 points (beginner, 1 point
\* needed) and one for 100 points (intermediate, 400 points needed).
C11_Witness ==
    \E p, q \in Procs :
        /\ proc[p].pc = "p_done" /\ proc[q].pc = "p_done"
        /\ proc[p].userPts = 99 /\ proc[p].levelInfo.level = "beginner"
        /\ proc[p].levelInfo.pointsNeeded = 1
        /\ proc[q].userPts = 100 /\ proc[q].levelInfo.level = "intermediate"
        /\ proc[q].levelInfo.pointsNeeded = 400

-----------------------------------------------------------------------------
(* SpecRetry: dispatches of checkAndAwardAchievements that can be abandoned  *)
(* part-way and are then dispatched again by the caller.  An awaited         *)
(* database operation that rejects ends the call through its catch block,    *)
(* which logs and returns []; whatever the call had written stays written.   *)

MaxRetries == 1

\* catch (error) { console.error(...); return []; } reached from any await of
\* the call: the call is over, nothing is undone.
Ach_Abandon(p) ==
    /\ proc[p].op = "dispatch"
    /\ proc[p].pc \in {"a_user", "a_query", "a_find", "a_create", "a_bonus"}
    /\ proc' = [proc EXCEPT ![p] = [ReturnAch(proc[p], <<>>) EXCEPT !.pc = "a_abandoned"]]
    /\ UNCHANGED <<dbVars, histVars, opsLeft, viewVars>>

\* The caller dispatches the same event for the same user again.
Ach_Retry(p) ==
    /\ proc[p].pc = "a_abandoned"
    /\ proc[p].retries < MaxRetries
    /\ LET r == proc[p]
       IN  proc' = [proc EXCEPT ![p] =
             CallAch([r EXCEPT !.retries = @ + 1], r.aUser, r.aAction,
                     r.aNewLevel, r.aViews, "a_done")]
    /\ UNCHANGED <<dbVars, histVars, opsLeft, viewVars>>

NextRetry ==
    \E p \in Procs :
        \/ Ach_Dispatch(p)
        \/ Ach_Abandon(p)
        \/ Ach_Retry(p)
        \/ Ach_FindUser(p)
        \/ Ach_Query(p)
        \/ Ach_FindOne(p)
        \/ Ach_Create(p)
        \/ Ach_AwardBonus(p)

SpecRetry == InitAch /\ [][NextRetry]_vars

\* C14: once a dispatch that was abandoned has been dispatched again and has
\* returned, and no other dispatch is in flight, every candidate of the
\* dispatch has exactly one unlock record and the user's points have grown by
\* the bonus of each recorded unlock exactly once.
C14_RetryCompletes ==
    \A p \in Procs :
        ( /\ proc[p].pc = "a_done"
          /\ proc[p].retries > 0
          /\ \A q \in Procs : proc[q].pc \in {"a_done", "idle"} )
        => /\ \A i \in 1..Len(proc[p].cand) : ach[proc[p].aUser][proc[p].cand[i]] = 1
           /\ points[proc[p].aUser] = pointsInit[proc[p].aUser]
                                      + SumBonus(proc[p].aUser, AchIds)

-----------------------------------------------------------------------------
(* SpecGone: rewards aimed at a user whose document may be missing from the  *)
(* users collection (stories and unlock records keep the id of their user;   *)
(* nothing in the database ties them to an existing user document).  u1, the *)
(* author of the story, may be missing: its story is liked by u2 and u3, and *)
(* StoryService.createStory is called with its id.                           *)

InitGone ==
    /\ userExists \in [Users -> BOOLEAN]
    /\ userExists["u2"] /\ userExists["u3"]
    /\ ach = [u \in Users |-> [a \in AchIds |-> 0]]
    /\ deltaSum = [u \in Users |-> 0]
    /\ proc = [p \in Procs |-> IdleProc]
    /\ opsLeft = MaxOps
    /\ recentViews = <<>>
    /\ viewsCount = 0
    /\ clock = 0
    /\ vreq = [p \in Procs |-> IdleView]
    /\ \E n \in {0, IntermediateMin - StoryReward} :
          pointsInit = [u \in Users |-> IF u = "u1" THEN n ELSE 0]
    /\ points = pointsInit
    /\ level = [u \in Users |-> getUserLevelInfo(points[u])]
    /\ docs = DefaultDocs
    /\ nPublished = [u \in Users |-> 0]
    /\ extraLikes = [u \in Users |-> 0]
    /\ commentCount = [u \in Users |-> 0]
    /\ comments = {}

\* throw new Error('User not found') of the service (in the controller the
\* TypeError of updatedUser!.points on null): the caller gets the failure.
Story_Error(p) ==
    /\ proc[p].pc = "s_error"
    /\ proc' = [proc EXCEPT ![p].pc = "s_failed"]
    /\ UNCHANGED <<dbVars, histVars, opsLeft, viewVars>>

NextGone ==
    \E p \in Procs :
        \/ Story_Start(p, {"u1"}, {"service"})
        \/ Story_Create(p)
        \/ Story_Reward(p)
        \/ Story_CheckLevel(p)
        \/ Story_SetLevel(p)
        \/ Story_Error(p)
        \/ Toggle_Find(p, {"u2", "u3"}, {"s1"})
        \/ Toggle_Reward(p)
        \/ Toggle_Save(p)
        \/ Finish(p)
        \/ Ach_FindUser(p)
        \/ Ach_Query(p)
        \/ Ach_FindOne(p)
        \/ Ach_Create(p)
        \/ Ach_AwardBonus(p)

SpecGone == InitGone /\ [][NextGone]_vars

\* C15: no operation that applied a point delta to a user that does not
\* exist completes successfully: neither a story creation for a missing
\* author nor a rewarded like of a story whose author is missing reaches its
\* success response.
C15_MissingUserReported ==
    \A p \in Procs :
        /\ ~( /\ proc[p].op = "story" /\ proc[p].pc = "s_done"
              /\ ~userExists[proc[p].user] )
        /\ ~( /\ proc[p].op = "toggle" /\ proc[p].pc = "t_done"
              /\ AwardsOwner(proc[p].hasLiked, docs[proc[p].target].author,
                             proc[p].user)
              /\ ~userExists[docs[proc[p].target].author] )

-----------------------------------------------------------------------------
(* SpecBase: the four rewarded operations requested one after another (a     *)
(* request starts when no other is in flight): createStory by u1,            *)
(* createComment by u1 or u2, and like toggles by anybody on the story of u1 *)
(* and on the comment of u2.                                                 *)

InitBase ==
    /\ InitCommon
    /\ \E n \in {0, IntermediateMin - StoryReward} :
          pointsInit = [u \in Users |-> IF u = "u1" THEN n ELSE 0]
    /\ points = pointsInit
    /\ level = [u \in Users |-> getUserLevelInfo(points[u])]
    /\ \E l \in {<<>>, <<"u3">>} :
          docs = [DefaultDocs EXCEPT !["s1"].likes = l, !["s1"].likesCount = Len(l)]
    /\ \E n \in {0, 4} : nPublished = [u \in Users |-> IF u = "u1" THEN n ELSE 0]
    /\ \E n \in {0, PopularLikes - 1} :
          extraLikes = [u \in Users |-> IF u = "u1" THEN n ELSE 0]
    /\ \E n \in {0, SocialComments - 1} :
          commentCount = [u \in Users |-> IF u = "u1" THEN n
                                          ELSE IF u = "u2" THEN 1 ELSE 0]

NextBase ==
    \E p \in Procs :
        \/ Quiet /\ Story_Start(p, {"u1"}, {"controller"})
        \/ Story_Create(p)
        \/ Story_Reward(p)
        \/ Story_CheckLevel(p)
        \/ Story_SetLevel(p)
        \/ Quiet /\ Comment_Create(p, {"u1", "u2"}, {NoParent})
        \/ Comment_IncStory(p)
        \/ Comment_Reward(p)
        \/ Quiet /\ Toggle_Find(p, Users, DOMAIN docs)
        \/ Toggle_Reward(p)
        \/ Toggle_Save(p)
        \/ Finish(p)
        \/ Ach_FindUser(p)
        \/ Ach_Query(p)
        \/ Ach_FindOne(p)
        \/ Ach_Create(p)
        \/ Ach_AwardBonus(p)

SpecBase == InitBase /\ [][NextBase]_vars

\* The user an operation rewards, and the documented reward (README, Points
\* System): create a story +10, add a comment +2, receive a like on a story
\* or on a comment +1 (a like by somebody else that was not there before).
Beneficiary(r) ==
    IF r.op = "toggle" THEN docs[r.target].author ELSE r.user

DocumentedReward(r) ==
    CASE r.op = "story" -> 10
      [] r.op = "comment" -> 2
      [] r.op = "toggle" ->
           IF ~r.hasLiked /\ r.user # docs[r.target].author THEN 1 ELSE 0
      [] OTHER -> 0

\* C16: when the first operation of a run has completed, the points of the
\* user it rewards are the initial points plus the documented base reward
\* (10 for a story, 2 for a comment, 1 for a like received on a story or on a
\* comment) plus the bonuses of the unlock records created, and nobody else's
\* points have changed apart from bonuses.
C16_BaseRewards ==
    \A p \in Procs :
        (opsLeft = MaxOps - 1 /\ proc[p].pc \in DonePcs)
        => \A v \in Users :
              points[v] = pointsInit[v]
                          + (IF v = Beneficiary(proc[p])
                             THEN DocumentedReward(proc[p]) ELSE 0)
                          + SumBonus(v, AchIds)

\* u1 has liked the comment of u2, which nobody had liked: u2 has one point
\* more and no unlock record.
C16_Witness ==
    \E p \in Procs :
        /\ opsLeft = MaxOps - 1
        /\ proc[p].pc = "t_done" /\ proc[p].target = "c1" /\ proc[p].user = "u1"
        /\ ~proc[p].hasLiked
        /\ points["u2"] = pointsInit["u2"] + 1
        /\ SumBonus("u2", AchIds) = 0

\* C19: when a createComment has completed and its author now has 20
\* comments or more, the SOCIAL_BUTTERFLY unlock record of the author exists.
C19_SocialButterfly ==
    \A p \in Procs :
        ( /\ proc[p].op = "comment" /\ proc[p].pc = "c_done"
          /\ commentCount[proc[p].user] >= SocialComments )
        => ach[proc[p].user]["SOCIAL_BUTTERFLY"] = 1

-----------------------------------------------------------------------------
(* SpecKing: the views of getStoryById on a story (author u1) that is one or *)
(* two counted views short of 50.                                            *)

InitKing ==
    /\ userExists = [u \in Users |-> TRUE]
    /\ ach = [u \in Users |-> [a \in AchIds |-> 0]]
    /\ deltaSum = [u \in Users |-> 0]
    /\ proc = [p \in Procs |-> IdleProc]
    /\ opsLeft = MaxOps
    /\ recentViews = <<>>
    /\ viewsCount \in {KingViews - 2, KingViews - 1}
    /\ clock = 0
    /\ vreq = [p \in Procs |-> IdleView]
    /\ pointsInit = [u \in Users |-> 0]
    /\ points = pointsInit
    /\ level = [u \in Users |-> getUserLevelInfo(points[u])]
    /\ docs = DefaultDocs
    /\ nPublished = [u \in Users |-> IF u = "u1" THEN 1 ELSE 0]
    /\ extraLikes = [u \in Users |-> 0]
    /\ commentCount = [u \in Users |-> 0]
    /\ comments = {}

SpecKing == InitKing /\ [][NextView]_vars

\* C20: when a view of the story has been counted and has completed, and the
\* story's view count is 50 or more, the ENGAGEMENT_KING unlock record of the
\* story's author exists.
C20_EngagementKing ==
    \A p \in Procs :
        ( /\ vreq[p].pc = "v_done" /\ vreq[p].counted
          /\ viewsCount >= KingViews )
        => ach[docs["s1"].author]["ENGAGEMENT_KING"] = 1

-----------------------------------------------------------------------------
(* SpecEdit: updateStory of controllers/storyController.ts                   *)
(* (StoryService.updateStory is the same code) next to like toggles of the   *)
(* same story.  The route runs validateStoryUpdate, which checks title,      *)
(* content, difficulty, tags and excerpt when present and leaves every other *)
(* field of the body as it came.                                             *)

\* Bodies of PUT /stories/:id: a plain edit (title, content, ...), and edits
\* that also carry likes, likesCount, or both.
StoryBodies ==
    { [EmptyBody EXCEPT !.hasLikes = hl, !.likes = IF hl THEN l ELSE <<>>,
                        !.hasCount = hc, !.likesCount = IF hc THEN n ELSE 0] :
        hl \in BOOLEAN, l \in {<<>>, <<"u2", "u3">>}, hc \in BOOLEAN, n \in {7} }

\* const story = await Story.findById(id); the ownership test: only the
\* author (or an admin; the modelled users have the role 'user') goes on.
Update_Find(p, editors) ==
    /\ proc[p].pc = "idle"
    /\ FreeSlot(p)
    /\ opsLeft > 0
    /\ opsLeft' = opsLeft - 1
    /\ \E u \in editors, b \in StoryBodies :
         proc' = [proc EXCEPT ![p] =
            [IdleProc EXCEPT !.op = "update", !.user = u, !.target = "s1",
                             !.body = b,
                             !.pc = IF docs["s1"].author # u THEN "e_denied"
                                    ELSE "e_apply"]]
    /\ UNCHANGED <<dbVars, histVars, viewVars>>

\* await Story.findByIdAndUpdate(id, req.body, {new: true, runValidators:
\* true}): every schema path present in the body is $set; likes and
\* likesCount are schema paths.  No save hook runs on findByIdAndUpdate.
Update_Apply(p) ==
    /\ proc[p].pc = "e_apply"
    /\ LET b == proc[p].body
       IN  docs' = [docs EXCEPT
                      ![proc[p].target].likes = IF b.hasLikes THEN b.likes ELSE @,
                      ![proc[p].target].likesCount =
                          IF b.hasCount THEN b.likesCount ELSE @]
    /\ proc' = [proc EXCEPT ![p].pc = "e_done"]
    /\ UNCHANGED <<points, level, userExists, ach, nPublished, extraLikes,
                   commentCount, comments, histVars, opsLeft, viewVars>>

\* The response (200, or 403 Access denied) has been sent.
Update_Finish(p) ==
    /\ proc[p].pc \in {"e_done", "e_denied"}
    /\ proc' = [proc EXCEPT ![p] = IdleProc]
    /\ UNCHANGED <<dbVars, histVars, opsLeft, viewVars>>

InitEdit ==
    /\ InitCommon
    /\ pointsInit = [u \in Users |-> 0]
    /\ points = pointsInit
    /\ level = [u \in Users |-> getUserLevelInfo(points[u])]
    /\ \E l \in {<<>>, <<"u2">>} :
          docs = [DefaultDocs EXCEPT !["s1"].likes = l, !["s1"].likesCount = Len(l)]
    /\ nPublished = [u \in Users |-> IF u = "u1" THEN 1 ELSE 0]
    /\ \E n \in {0, PopularLikes} :
          extraLikes = [u \in Users |-> IF u = "u1" THEN n ELSE 0]
    /\ commentCount = [u \in Users |-> 0]

NextEdit ==
    \E p \in Procs :
        \/ Update_Find(p, {"u1", "u2"})
        \/ Update_Apply(p)
        \/ Update_Finish(p)
        \/ Toggle_Find(p, {"u2"}, {"s1"})
        \/ Toggle_Reward(p)
        \/ Toggle_Save(p)
        \/ Finish(p)
        \/ Ach_FindUser(p)
        \/ Ach_Query(p)
        \/ Ach_FindOne(p)
        \/ Ach_Create(p)
        \/ Ach_AwardBonus(p)

SpecEdit == InitEdit /\ [][NextEdit]_vars

\* C23: a step changes the likes array or the likesCount of a story or a
\* comment only if it is the save of a like toggle of that target.
C23_OnlyTogglesChangeLikes ==
    [][\A t \in DOMAIN docs :
          ( \/ docs'[t].likes # docs[t].likes
            \/ docs'[t].likesCount # docs[t].likesCount )
          => \E p \in Procs :
                /\ proc[p].op = "toggle" /\ proc[p].target = t
                /\ proc[p].pc = "t_save" /\ proc'[p].pc = "t_done"
      ]_vars

-----------------------------------------------------------------------------
(* SpecProfile: updateProfile of controllers/authController.ts               *)
(* (AuthService.updateUserProfile is the same code) next to createStory, for *)
(* one user, u1.  register stores level: level || 'beginner' from its body   *)
(* in the same way.                                                          *)

\* Bodies of PUT /auth/profile: with or without a level.
ProfileBodies ==
    { [EmptyBody EXCEPT !.hasLevel = hl, !.level = IF hl THEN l ELSE "none"] :
        hl \in BOOLEAN, l \in Levels }

\* authenticate has loaded req.user; const {username, bio, level, avatar} =
\* req.body; updateData.level = level when the body carries one.
Profile_Start(p, callers) ==
    /\ proc[p].pc = "idle"
    /\ FreeSlot(p)
    /\ opsLeft > 0
    /\ opsLeft' = opsLeft - 1
    /\ \E u \in callers, b \in ProfileBodies :
         proc' = [proc EXCEPT ![p] =
            [IdleProc EXCEPT !.op = "profile", !.user = u, !.body = b,
                             !.pc = "u_apply"]]
    /\ UNCHANGED <<dbVars, histVars, viewVars>>

\* const user = await User.findByIdAndUpdate(req.user._id, updateData, {new:
\* true, runValidators: true})
Profile_Apply(p) ==
    /\ proc[p].pc = "u_apply"
    /\ LET r == proc[p]
       IN  level' = IF r.body.hasLevel /\ userExists[r.user]
                    THEN [level EXCEPT ![r.user] = r.body.level] ELSE level
    /\ proc' = [proc EXCEPT ![p].pc = "u_done"]
    /\ UNCHANGED <<points, userExists, ach, docs, nPublished, extraLikes,
                   commentCount, comments, histVars, opsLeft, viewVars>>

\* The response has been sent.
Profile_Finish(p) ==
    /\ proc[p].pc = "u_done"
    /\ proc' = [proc EXCEPT ![p] = IdleProc]
    /\ UNCHANGED <<dbVars, histVars, opsLeft, viewVars>>

NextProfile ==
    \E p \in Procs :
        \/ Profile_Start(p, {"u1"})
        \/ Profile_Apply(p)
        \/ Profile_Finish(p)
        \/ Story_Start(p, {"u1"}, {"controller"})
        \/ Story_Create(p)
        \/ Story_Reward(p)
        \/ Story_CheckLevel(p)
        \/ Story_SetLevel(p)
        \/ Finish(p)
        \/ Ach_FindUser(p)
        \/ Ach_Query(p)
        \/ Ach_FindOne(p)
        \/ Ach_Create(p)
        \/ Ach_AwardBonus(p)

SpecProfile == InitStory /\ [][NextProfile]_vars

\* The operations that are engagement events.
EngagementOps == {"story", "toggle", "comment", "dispatch"}

\* C24: a step changes the stored points or the stored level of a user only
\* if it is a step of an engagement operation (story creation, like toggle,
\* comment creation, achievement dispatch).
C24_OnlyEngagementChangesUser ==
    [][(points' # points \/ level' # level)
          => \E p \in Procs :
                proc[p].op \in EngagementOps /\ proc'[p] # proc[p]
      ]_vars

\* C30: a createStory never writes a level of a lower tier than the stored
\* one, and the levelUp record it builds goes from a lower tier to a strictly
\* higher one.
C30_LevelNeverDown ==
    [][\A p \in Procs :
          ( /\ proc[p].op = "story" /\ proc[p].pc = "s_setlevel"
            /\ proc'[p] # proc[p] )
          => /\ LevelRank(level'[proc[p].user]) >= LevelRank(level[proc[p].user])
             /\ LevelRank(proc'[p].oldLevel) < LevelRank(proc'[p].newLevel)
      ]_vars

-----------------------------------------------------------------------------
\* C26: in every reachable state, also after concurrent like requests of the
\* same reactor on the same target, the liked-by array of a story or comment
\* holds each reactor identifier at most once.
C26_LikesAreASet ==
    \A t \in DOMAIN docs : \A i, j \in 1..Len(docs[t].likes) :
        docs[t].likes[i] = docs[t].likes[j] => i = j

-----------------------------------------------------------------------------
\* C27: when the only request of a run, a createStory, has completed, the
\* userStats.totalPoints of its response equals the author's stored points,
\* every achievement bonus of the call included, and the level of its
\* response is the level of those points.
C27_ReturnedTotalIsStored ==
    \A p \in Procs :
        ( /\ opsLeft = MaxOps - 1
          /\ proc[p].op = "story" /\ proc[p].pc = "s_done" )
        => /\ proc[p].updatedPts = points[proc[p].user]
           /\ proc[p].newLevel = getUserLevelInfo(points[proc[p].user])

-----------------------------------------------------------------------------
(* SpecFail: like toggles on story s1 (author u1) by u2 and u3 whose         *)
(* story.save() may reject (the database is unreachable, or the story was    *)
(* deleted after it was read); the client repeats a rejected toggle.         *)

\* await story.save() rejects: nothing is written, asyncHandler hands the
\* error to the error middleware and the request ends with an error response.
Toggle_SaveRejects(p) ==
    /\ proc[p].pc = "t_save"
    /\ proc' = [proc EXCEPT ![p].pc = "t_failed"]
    /\ UNCHANGED <<dbVars, histVars, opsLeft, viewVars>>

\* The reactor sends the rejected toggle again: the handler runs from its
\* start, const story = await Story.findById(id) and the membership test.
Toggle_Again(p) ==
    /\ proc[p].pc = "t_failed"
    /\ opsLeft > 0
    /\ opsLeft' = opsLeft - 1
    /\ LET r == proc[p]
           d == docs[r.target]
           liked == Includes(d.likes, r.user)
       IN  proc' = [proc EXCEPT ![p] =
             [IdleProc EXCEPT
                !.op = "toggle", !.user = r.user, !.target = r.target,
                !.hasLiked = liked, !.retries = r.retries + 1,
                !.likesLocal = IF liked THEN Without(d.likes, r.user)
                               ELSE Append(d.likes, r.user),
                !.saveKind = IF liked THEN "set" ELSE "push",
                !.pc = IF AwardsOwner(liked, d.author, r.user) THEN "t_inc"
                       ELSE "t_save"]]
    /\ UNCHANGED <<dbVars, histVars, viewVars>>

NextFail ==
    \E p \in Procs :
        \/ Toggle_Find(p, {"u2", "u3"}, {"s1"})
        \/ Toggle_Reward(p)
        \/ Toggle_Save(p)
        \/ Toggle_SaveRejects(p)
        \/ Toggle_Again(p)
        \/ Finish(p)
        \/ Ach_FindUser(p)
        \/ Ach_Query(p)
        \/ Ach_FindOne(p)
        \/ Ach_Create(p)
        \/ Ach_AwardBonus(p)

SpecFail == InitLike /\ [][NextFail]_vars

\* C28: when the only toggle of a run has failed at its save, the points and
\* the unlock records of every user are those of before the call; and when
\* the repeat of that toggle has completed as the only other request, the
\* owner has been given the like reward once.
C28_FailedToggleNoAward ==
    \A p \in Procs :
        /\ ( /\ opsLeft = MaxOps - 1
             /\ proc[p].op = "toggle" /\ proc[p].pc = "t_failed" )
           => ( /\ points = pointsInit
                /\ \A u \in Users, a \in AchIds : ach[u][a] = 0 )
        /\ ( /\ opsLeft = MaxOps - 2
             /\ proc[p].op = "toggle" /\ proc[p].pc = "t_done"
             /\ proc[p].retries = 1 /\ ~proc[p].hasLiked )
           => deltaSum[docs[proc[p].target].author] = BaseReward("toggle")

-----------------------------------------------------------------------------
(* SpecThread: createComment and deleteComment on story s1, which starts     *)
(* either without comments or with a comment and one reply to it.            *)

\* The stored replies of comment id: Comment documents {parentComment: id}.
RepliesOf(id) == {c \in comments : c.parent = id}

\* const comment = await Comment.findById(commentId); 404 when it is absent,
\* 403 when the requester is not its author (no requester is an admin).
Delete_Find(p) ==
    /\ proc[p].pc = "idle"
    /\ FreeSlot(p)
    /\ opsLeft > 0
    /\ opsLeft' = opsLeft - 1
    /\ \E u \in Users, id \in 1..(Cardinality(SeedThread) + MaxOps) :
         proc' = [proc EXCEPT ![p] =
            [IdleProc EXCEPT
               !.op = "delete", !.user = u, !.target = "s1", !.commentId = id,
               !.pc = IF \E c \in comments : c.id = id /\ c.author = u
                      THEN "d_replies" ELSE "d_done"]]
    /\ UNCHANGED <<dbVars, histVars, viewVars>>

\* await Comment.deleteMany({parentComment: commentId})
Delete_Replies(p) ==
    /\ proc[p].pc = "d_replies"
    /\ LET gone == RepliesOf(proc[p].commentId)
       IN  /\ comments' = comments \ gone
           /\ commentCount' = [u \in Users |->
                 commentCount[u] - Cardinality({c \in gone : c.author = u})]
    /\ proc' = [proc EXCEPT ![p].pc = "d_count"]
    /\ UNCHANGED <<points, level, userExists, ach, docs, nPublished, extraLikes,
                   histVars, opsLeft, viewVars>>

\* const deletedRepliesCount = await Comment.countDocuments({parentComment:
\* commentId}); const totalDeleted = deletedRepliesCount + 1
Delete_Count(p) ==
    /\ proc[p].pc = "d_count"
    /\ proc' = [proc EXCEPT
          ![p].countLocal = Cardinality(RepliesOf(proc[p].commentId)) + 1,
          ![p].pc = "d_comment"]
    /\ UNCHANGED <<dbVars, histVars, opsLeft, viewVars>>

\* await Comment.findByIdAndDelete(commentId)
Delete_Comment(p) ==
    /\ proc[p].pc = "d_comment"
    /\ LET gone == {c \in comments : c.id = proc[p].commentId}
       IN  /\ comments' = comments \ gone
           /\ commentCount' = [u \in Users |->
                 commentCount[u] - Cardinality({c \in gone : c.author = u})]
    /\ proc' = [proc EXCEPT ![p].pc = "d_story"]
    /\ UNCHANGED <<points, level, userExists, ach, docs, nPublished, extraLikes,
                   histVars, opsLeft, viewVars>>

\* await Story.findByIdAndUpdate(comment.story, {$inc: {commentsCount:
\* -totalDeleted}})
Delete_DecStory(p) ==
    /\ proc[p].pc = "d_story"
    /\ docs' = [docs EXCEPT ![proc[p].target].commentsCount = @ - proc[p].countLocal]
    /\ proc' = [proc EXCEPT ![p].pc = "d_done"]
    /\ UNCHANGED <<points, level, userExists, ach, nPublished, extraLikes,
                   commentCount, comments, histVars, opsLeft, viewVars>>

InitThread ==
    /\ userExists = [u \in Users |-> TRUE]
    /\ ach = [u \in Users |-> [a \in AchIds |-> 0]]
    /\ deltaSum = [u \in Users |-> 0]
    /\ proc = [p \in Procs |-> IdleProc]
    /\ opsLeft = MaxOps
    /\ recentViews = <<>>
    /\ viewsCount = 0
    /\ clock = 0
    /\ vreq = [p \in Procs |-> IdleView]
    /\ pointsInit = [u \in Users |-> 0]
    /\ points = pointsInit
    /\ level = [u \in Users |-> getUserLevelInfo(points[u])]
    /\ nPublished = [u \in Users |-> IF u = "u1" THEN 1 ELSE 0]
    /\ extraLikes = [u \in Users |-> 0]
    /\ comments \in {{}, SeedThread}
    /\ commentCount = [u \in Users |-> Cardinality({c \in comments : c.author = u})]
    /\ docs = [DefaultDocs EXCEPT !["s1"].commentsCount = Cardinality(comments)]

NextThread ==
    \E p \in Procs :
        \/ Comment_Create(p, {"u2", "u3"}, 0..(Cardinality(SeedThread) + MaxOps))
        \/ Comment_IncStory(p)
        \/ Comment_Reward(p)
        \/ Delete_Find(p)
        \/ Delete_Replies(p)
        \/ Delete_Count(p)
        \/ Delete_Comment(p)
        \/ Delete_DecStory(p)
        \/ Finish(p)

SpecThread == InitThread /\ [][NextThread]_vars

\* C29: when every createComment and deleteComment call made so far has
\* completed, the story's commentsCount is the number of stored comments
\* (top-level comments and replies) that reference the story; so a delete of
\* a comment with replies has lowered the count by one plus the number of
\* replies it removed.
C29_CountIsStoredComments ==
    Quiet => docs["s1"].commentsCount = Cardinality(comments)

=============================================================================
